---- MODULE Spec2Model ----
(***************************************************************************)
(* WebSearchAgent (src/main.py): search_web with its two providers,        *)
(* generate_response, search_and_answer and the interactive loop of main.  *)
(*                                                                         *)
(* Text is a sequence of one-character strings, so that slicing,           *)
(* concatenation, strip, lower and replace are computed on characters.     *)
(* A JSON value is a tagged record: [t |-> "str", s |-> text],             *)
(* [t |-> "num", n |-> i], [t |-> "null"], [t |-> "list", l |-> seq],      *)
(* [t |-> "dict", d |-> function from keys to JSON values].                *)
(* A Python call that may raise yields [exc |-> TRUE] or                   *)
(* [exc |-> FALSE, val |-> v].                                             *)
(***************************************************************************)
EXTENDS Integers, Sequences, FiniteSets, TLC

VARIABLES
    search_api_key,    \* self.search_api_key, a JSON null or str
    search_engine_id,  \* self.search_engine_id, a JSON null or str
    pc,                \* position of the driver and of the agent
    line,              \* the last line returned by input(), untrimmed
    calls,             \* search_and_answer invocations since the last input()
    query,             \* the query being processed
    num_results,       \* the limit being processed
    search_results,    \* the list search_web returned
    ai_response,       \* the text generate_response returned
    result,            \* the bundle search_and_answer returned
    trace              \* calls, requests and failure reports of the query

vars ==
    <<search_api_key, search_engine_id, pc, line, calls, query,
      num_results, search_results, ai_response, result, trace>>

(***************************************************************************)
(* Bounds of the explored inputs.                                          *)
(***************************************************************************)
MaxLimit == 2
MaxTopics == 2
MaxLineLen == 1
MainTopics == 1

(***************************************************************************)
(* Constants of the program.                                               *)
(***************************************************************************)
SnippetLen == 200
TitleLen == 50
GoogleMaxNum == 10
DefaultNumResults == 5

(***************************************************************************)
(* String literals of the program.                                         *)
(***************************************************************************)
ELLIPSIS ==
    <<".",".",".">>

PLACEHOLDER_TITLE ==
    <<"S","e","a","r","c","h"," ","r","e","s","u","l","t","s"," ","f","o","r",":"," ">>

PLACEHOLDER_SNIPPET_HEAD ==
    <<"F","o","u","n","d"," ","s","e","a","r","c","h"," ","q","u","e","r","y"," ","a","b","o","u",
      "t"," ">>

PLACEHOLDER_SNIPPET_TAIL ==
    <<"."," ","M","o","r","e"," ","d","e","t","a","i","l","e","d"," ","r","e","s","u","l","t","s",
      " ","m","a","y"," ","r","e","q","u","i","r","e"," ","a","d","d","i","t","i","o","n","a","l",
      " ","s","e","a","r","c","h"," ","A","P","I","s",".">>

PLACEHOLDER_LINK ==
    <<"h","t","t","p","s",":","/","/","a","p","i",".","d","u","c","k","d","u","c","k","g","o",".",
      "c","o","m","/","?","q","=">>

FALLBACK_TITLE ==
    <<"S","e","a","r","c","h",":"," ">>

FALLBACK_SNIPPET ==
    <<"U","n","a","b","l","e"," ","t","o"," ","f","e","t","c","h"," ","l","i","v","e"," ","s","e",
      "a","r","c","h"," ","r","e","s","u","l","t","s","."," ","T","h","i","s"," ","w","o","u","l",
      "d"," ","n","o","r","m","a","l","l","y"," ","s","e","a","r","c","h"," ","f","o","r",":"," ">>

FALLBACK_LINK ==
    <<"h","t","t","p","s",":","/","/","w","w","w",".","g","o","o","g","l","e",".","c","o","m","/",
      "s","e","a","r","c","h","?","q","=">>

CONTEXT_HEAD ==
    <<"H","e","r","e"," ","a","r","e"," ","t","h","e"," ","s","e","a","r","c","h"," ","r","e","s",
      "u","l","t","s",":"," ","\n","\n">>

CONTEXT_TITLE_OPEN ==
    <<","," ","*","*">>

CONTEXT_TITLE_CLOSE ==
    <<"*","*","\n">>

CONTEXT_INDENT ==
    <<" "," "," ">>

CONTEXT_SOURCE ==
    <<" "," "," ","S","o","u","r","c","e",":"," ">>

PROMPT_HEAD ==
    <<"Y","o","u"," ","a","r","e"," ","h","e","l","p","f","u","l"," ","A","I"," ","a","s","s","i",
      "s","t","a","n","t","."," ","B","a","s","e","d"," ","o","n"," ","t","h","e"," ","f","o","l",
      "l","o","w","i","n","g"," ","s","e","a","r","c","h"," ","r","e","s","u","l","t","s",","," ",
      "p","r","o","v","i","d","e"," ","a"," ","c","o","m","p","r","e","h","e","n","s","i","v","e",
      " ","a","n","d"," ","a","c","c","u","r","a","t","e"," ","a","n","s","w","e","r"," ","t","o",
      " ","t","h","e"," ","u","s","e","r","'","s"," ","q","u","e","s","t","i","o","n",".","\n"," ",
      " "," "," "," "," "," "," "," "," "," "," "," "," "," "," "," "," "," "," "," ","U","s","e",
      "r"," ","Q","u","e","s","t","i","o","n",":"," ">>

PROMPT_MID ==
    <<"\n"," "," "," "," "," "," "," "," "," "," "," "," "," "," "," "," "," "," "," "," "," ">>

PROMPT_TAIL ==
    <<"\n"," "," "," "," "," "," "," "," "," "," "," "," "," "," "," "," "," "," "," "," "," ","P",
      "l","e","a","s","e"," ","p","r","o","v","i","d","e"," ","a"," ","w","e","l","l","-","s","t",
      "r","u","c","t","u","r","e","d"," ","r","e","s","p","o","n","s","e"," ","t","h","a","t",":",
      "\n"," "," "," "," "," "," "," "," "," "," "," "," "," "," "," "," "," "," "," "," "," ","1",
      "."," ","D","i","r","e","c","t","l","y"," ","a","n","s","w","e","r","s"," ","t","h","e"," ",
      "u","s","e","r","'","s"," ","q","u","e","s","t","i","o","n","\n"," "," "," "," "," "," "," ",
      " "," "," "," "," "," "," "," "," "," "," "," "," "," ","2","."," ","S","y","n","t","h","e",
      "s","i","z","e","s"," ","i","n","f","o","r","m","a","t","i","o","n"," ","f","r","o","m"," ",
      "t","h","e"," ","s","e","a","r","c","h"," ","r","e","s","u","l","t","s","\n"," "," "," "," ",
      " "," "," "," "," "," "," "," "," "," "," "," "," "," "," "," "," ","3","."," ","M","e","n",
      "t","i","o","n","s"," ","s","o","u","r","c","e","s"," ","w","h","e","n"," ","r","e","l","e",
      "v","a","n","t","\n"," "," "," "," "," "," "," "," "," "," "," "," "," "," "," "," "," "," ",
      " "," "," ","4","."," ","I","s"," ","c","l","e","a","r"," ","a","n","d"," ","e","a","s","y",
      " ","t","o"," ","u","n","d","e","r","s","t","a","n","d","\n"," "," "," "," "," "," "," "," ",
      " "," "," "," "," "," "," "," "," "," "," "," "," ","5","."," ","A","c","k","n","o","w","l",
      "e","d","g","e","s"," ","i","f"," ","i","n","f","o","r","m","a","t","i","o","n"," ","i","s",
      " ","l","i","m","i","t","e","d"," ","o","r"," ","u","n","c","e","r","t","a","i","n","\n"," ",
      " "," "," "," "," "," "," "," "," "," "," "," "," "," "," "," "," "," "," "," ","\n"," "," ",
      " "," "," "," "," "," "," "," "," "," "," "," "," "," "," "," "," "," "," ","R","e","s","p",
      "o","n","s","e",":">>

ERROR_MARKER ==
    <<"U+274C"," ","E","r","r","o","r"," ","g","e","n","e","r","a","t","i","n","g"," ","r","e","s",
      "p","o","n","s","e",":"," ">>

RAW_RESULTS_HEAD ==
    <<"\n","\n","H","e","r","e"," ","a","r","e"," ","t","h","e"," ","r","a","w"," ","s","e","a","r",
      "c","h"," ","r","e","s","u","l","t","s",":","\n">>

BULLET ==
    <<"U+2022"," ">>

COLON ==
    <<":"," ">>

QuitWords ==
    { <<"q","u","i","t">>, <<"e","x","i","t">>, <<"q">> }

(***************************************************************************)
(* Python built-ins.                                                       *)
(***************************************************************************)
Min(a, b) == IF a < b THEN a ELSE b

Max(a, b) == IF a > b THEN a ELSE b

JStr(s) == [t |-> "str", s |-> s]

JNum(n) == [t |-> "num", n |-> n]

JNull == [t |-> "null"]

JList(l) == [t |-> "list", l |-> l]

JDict(d) == [t |-> "dict", d |-> d]

Raise == [exc |-> TRUE]

Ok(v) == [exc |-> FALSE, val |-> v]

\* bool(v)
Truthy(v) ==
    CASE v.t = "str" -> Len(v.s) > 0
      [] v.t = "num" -> v.n # 0
      [] v.t = "null" -> FALSE
      [] v.t = "list" -> Len(v.l) > 0
      [] v.t = "dict" -> DOMAIN v.d # {}

\* d.get(k, default) on a dict d
DictGet(d, k, default) == IF k \in DOMAIN d.d THEN d.d[k] ELSE default

\* seq[:stop], for a negative stop too
SliceTo(seq, stop) ==
    LET e == IF stop < 0 THEN Max(Len(seq) + stop, 0) ELSE Min(stop, Len(seq))
    IN  SubSeq(seq, 1, e)

\* variant: the ellipsis only when something was cut off
SliceEllipsis_OnlyWhenCut(v, stop) ==
    IF v.t = "str"
    THEN Ok(SliceTo(v.s, stop) \o (IF Len(v.s) > stop THEN ELLIPSIS ELSE <<>>))
    ELSE Raise

\* v[:stop] + '...' for a JSON value v: only a str can be sliced and then
\* concatenated with a str
SliceEllipsis(v, stop) ==
    IF v.t = "str" THEN Ok(SliceTo(v.s, stop) \o ELLIPSIS) ELSE Raise

\* s.replace(a, b) for one-character a and b
Replace(s, a, b) == [i \in 1..Len(s) |-> IF s[i] = a THEN b ELSE s[i]]

Whitespace == {" ", "\t"}

RECURSIVE lstrip(_)
lstrip(s) ==
    IF s # <<>> /\ Head(s) \in Whitespace THEN lstrip(Tail(s)) ELSE s

RECURSIVE rstrip(_)
rstrip(s) ==
    IF s # <<>> /\ s[Len(s)] \in Whitespace
    THEN rstrip(SubSeq(s, 1, Len(s) - 1)) ELSE s

\* str.strip()
strip(s) == rstrip(lstrip(s))

LowerChar(c) ==
    CASE c = "Q" -> "q" [] c = "U" -> "u" [] c = "I" -> "i" [] c = "T" -> "t"
      [] c = "E" -> "e" [] c = "X" -> "x" [] c = "A" -> "a" [] c = "S" -> "s"
      [] OTHER -> c

\* variant: no case folding
lower_Identity(s) == s

\* str.lower()
lower(s) == [i \in 1..Len(s) |-> LowerChar(s[i])]

Digit(d) ==
    CASE d = 0 -> "0" [] d = 1 -> "1" [] d = 2 -> "2" [] d = 3 -> "3"
      [] d = 4 -> "4" [] d = 5 -> "5" [] d = 6 -> "6" [] d = 7 -> "7"
      [] d = 8 -> "8" [] d = 9 -> "9"

\* str(i) for i >= 0
RECURSIVE Decimal(_)
Decimal(i) ==
    IF i < 10 THEN <<Digit(i)>> ELSE Decimal(i \div 10) \o <<Digit(i % 10)>>

\* the text a field of a result holds; the fields the model draws are str
TextOf(v) == v.s

(***************************************************************************)
(* What a provider can answer.  kind "ok" is a 2xx answer whose body       *)
(* parsed as JSON; the other kinds make requests.get, raise_for_status or  *)
(* response.json raise.                                                    *)
(***************************************************************************)
EmptyDict == [k \in {} |-> JNull]

SeqsUpTo(S, n) == UNION { [1..k -> S] : k \in 0..n }

Chr(i) == IF i % 7 = 0 THEN "-" ELSE IF i % 2 = 0 THEN "b" ELSE "a"

Text(n) == [i \in 1..n |-> Chr(i)]

\* lengths below, at and above the two cuts
TextLens == {1, TitleLen, TitleLen + 1, SnippetLen, SnippetLen + 1}

AbstractLens == {1, SnippetLen, SnippetLen + 1}

HEADING == <<"H","d">>

ABSTRACT_URL == <<"u","r","l","A">>

FIRST_URL == <<"u","r","l","T">>

ITEM_TITLE == <<"G","t">>

ITEM_SNIPPET == <<"G","s">>

ITEM_LINK == <<"u","r","l","G">>

FailureKinds == {"transport_error", "http_error", "bad_json"}

Failures == { [kind |-> k] : k \in FailureKinds }

TopicSet(lens) ==
    { JDict(("Text" :> JStr(Text(n))) @@ ("FirstURL" :> JStr(FIRST_URL))) :
        n \in lens }
    \cup { JDict("FirstURL" :> JStr(FIRST_URL)),
           JDict("Text" :> JNum(7)),
           JStr(<<"x">>) }

DDGData(absLens, topicLens, maxT) ==
    { JDict(a @@ r) :
        a \in {EmptyDict, "Abstract" :> JStr(<<>>), "Abstract" :> JNum(7)}
              \cup { ("Abstract" :> JStr(Text(n))) @@ h :
                       n \in absLens,
                       h \in {EmptyDict,
                              ("Heading" :> JStr(HEADING))
                                  @@ ("AbstractURL" :> JStr(ABSTRACT_URL))} },
        r \in {EmptyDict, "RelatedTopics" :> JNull}
              \cup { "RelatedTopics" :> JList(l) :
                       l \in SeqsUpTo(TopicSet(topicLens), maxT) } }
    \cup { JList(<<>>) }

DDGResponses(absLens, topicLens, maxT) ==
    Failures
    \cup { [kind |-> "ok", data |-> d] : d \in DDGData(absLens, topicLens, maxT) }

GoogleItem ==
    JDict(("title" :> JStr(ITEM_TITLE)) @@ ("snippet" :> JStr(ITEM_SNIPPET))
              @@ ("link" :> JStr(ITEM_LINK)))

GoogleItemLists ==
    { <<>>, <<GoogleItem>>, <<GoogleItem, JDict(EmptyDict)>>, <<GoogleItem, JNum(7)>> }

GoogleData ==
    { JDict(EmptyDict), JDict("items" :> JNull), JList(<<>>) }
    \cup { JDict("items" :> JList(l)) : l \in GoogleItemLists }

GoogleResponses ==
    Failures \cup { [kind |-> "ok", data |-> d] : d \in GoogleData }

(***************************************************************************)
(* _duckduckgo_search                                                      *)
(***************************************************************************)
\* lines 78-83: the result built from the abstract, if there is one
DDGAbstract(data, q) ==
    IF Truthy(DictGet(data, "Abstract", JNull))
    THEN LET sn == SliceEllipsis(DictGet(data, "Abstract", JStr(<<>>)), SnippetLen)
         IN  IF sn.exc THEN Raise
             ELSE Ok(<< [title |-> TextOf(DictGet(data, "Heading", JStr(q))),
                         snippet |-> sn.val,
                         link |-> TextOf(DictGet(data, "AbstractURL", JStr(<<>>)))] >>)
    ELSE Ok(<<>>)

\* variant: a related topic that cannot be built is skipped
RECURSIVE DDGTopics_SkipBad(_, _)
DDGTopics_SkipBad(topics, results) ==
    IF topics = <<>> THEN Ok(results)
    ELSE LET topic == Head(topics)
         IN  IF topic.t = "dict" /\ Truthy(DictGet(topic, "Text", JNull))
             THEN LET ti == SliceEllipsis(DictGet(topic, "Text", JStr(<<>>)), TitleLen)
                      sn == SliceEllipsis(DictGet(topic, "Text", JStr(<<>>)), SnippetLen)
                  IN  IF ti.exc \/ sn.exc THEN DDGTopics_SkipBad(Tail(topics), results)
                      ELSE DDGTopics_SkipBad(Tail(topics),
                               Append(results,
                                   [title |-> ti.val,
                                    snippet |-> sn.val,
                                    link |-> TextOf(DictGet(topic, "FirstURL", JStr(<<>>))),
                                    source |-> "DuckDuckGo"]))
             ELSE DDGTopics_SkipBad(Tail(topics), results)

\* lines 85-92: the loop over the sliced related topics, appending to results
RECURSIVE DDGTopics(_, _)
DDGTopics(topics, results) ==
    IF topics = <<>> THEN Ok(results)
    ELSE LET topic == Head(topics)
         IN  IF topic.t = "dict" /\ Truthy(DictGet(topic, "Text", JNull))
             THEN LET ti == SliceEllipsis(DictGet(topic, "Text", JStr(<<>>)), TitleLen)
                      sn == SliceEllipsis(DictGet(topic, "Text", JStr(<<>>)), SnippetLen)
                  IN  IF ti.exc \/ sn.exc THEN Raise
                      ELSE DDGTopics(Tail(topics),
                               Append(results,
                                   [title |-> ti.val,
                                    snippet |-> sn.val,
                                    link |-> TextOf(DictGet(topic, "FirstURL", JStr(<<>>))),
                                    source |-> "DuckDuckGo"]))
             ELSE DDGTopics(Tail(topics), results)

\* variant: the slice takes num_results related topics
DDGSlice_WholeLimit(data, n) ==
    LET rt == DictGet(data, "RelatedTopics", JList(<<>>))
    IN  IF rt.t = "list" THEN Ok(SliceTo(rt.l, n)) ELSE Raise

\* line 85: data.get('RelatedTopics', [])[:num_results - 1]
DDGSlice(data, n) ==
    LET rt == DictGet(data, "RelatedTopics", JList(<<>>))
    IN  IF rt.t = "list" THEN Ok(SliceTo(rt.l, n - 1)) ELSE Raise

\* lines 94-100
DDGPlaceholder(q) ==
    [title |-> PLACEHOLDER_TITLE \o q,
     snippet |-> PLACEHOLDER_SNIPPET_HEAD \o q \o PLACEHOLDER_SNIPPET_TAIL,
     link |-> PLACEHOLDER_LINK \o Replace(q, " ", "+"),
     source |-> "DuckDuckGo"]

\* lines 104-109
DDGFallback(q) ==
    [title |-> FALLBACK_TITLE \o q,
     snippet |-> FALLBACK_SNIPPET \o q,
     link |-> FALLBACK_LINK \o Replace(q, " ", "+"),
     source |-> "Fallback"]

\* lines 64-101: the body of the try
DDGBody(q, n, resp) ==
    IF resp.kind # "ok" THEN Raise
    ELSE IF resp.data.t # "dict" THEN Raise
    ELSE LET a == DDGAbstract(resp.data, q)
             s == DDGSlice(resp.data, n)
         IN  IF a.exc \/ s.exc THEN Raise
             ELSE LET r == DDGTopics(s.val, a.val)
                  IN  IF r.exc THEN Raise
                      ELSE IF r.val = <<>> THEN Ok(<<DDGPlaceholder(q)>>)
                      ELSE r

_duckduckgo_search(q, n, resp) ==
    LET body == DDGBody(q, n, resp)
        results == IF body.exc THEN <<DDGFallback(q)>> ELSE body.val
    IN  [results |-> results,
         events |->
             << [ev |-> "call", fn |-> "_duckduckgo_search", q |-> q, n |-> n],
                [ev |-> "http", to |-> "duckduckgo", q |-> q, resp |-> resp] >>
             \o (IF body.exc THEN << [ev |-> "failed", fn |-> "_duckduckgo_search"] >>
                 ELSE <<>>)
             \o << [ev |-> "return", fn |-> "_duckduckgo_search", val |-> results] >>]

(***************************************************************************)
(* _google_search                                                          *)
(***************************************************************************)
\* lines 48-54: the loop over the items
RECURSIVE GoogleItemsLoop(_, _)
GoogleItemsLoop(items, results) ==
    IF items = <<>> THEN Ok(results)
    ELSE LET item == Head(items)
         IN  IF item.t # "dict" THEN Raise
             ELSE GoogleItemsLoop(Tail(items),
                      Append(results,
                          [title |-> TextOf(DictGet(item, "title", JStr(<<>>))),
                           snippet |-> TextOf(DictGet(item, "snippet", JStr(<<>>))),
                           link |-> TextOf(DictGet(item, "link", JStr(<<>>))),
                           source |-> "Google"]))

\* lines 34-56: the body of the try
GoogleBody(resp) ==
    IF resp.kind # "ok" THEN Raise
    ELSE IF resp.data.t # "dict" THEN Raise
    ELSE LET items == DictGet(resp.data, "items", JList(<<>>))
         IN  IF items.t # "list" THEN Raise
             ELSE GoogleItemsLoop(items.l, <<>>)

\* variant: a failed primary call returns no results instead of falling back
_google_search_NoFallback(q, n, gresp, DR) ==
    LET body == GoogleBody(gresp)
        request == [ev |-> "http", to |-> "google", q |-> q,
                    num |-> Min(n, GoogleMaxNum), kind |-> gresp.kind]
    IN  IF body.exc
        THEN { [results |-> <<>>,
                events |-> << request, [ev |-> "failed", fn |-> "_google_search"] >>] }
        ELSE { [results |-> body.val, events |-> <<request>>] }

\* variant: the secondary provider is asked after a successful primary call
\* too, and its results are appended
_google_search_AskBoth(q, n, gresp, DR) ==
    LET body == GoogleBody(gresp)
        request == [ev |-> "http", to |-> "google", q |-> q,
                    num |-> Min(n, GoogleMaxNum), kind |-> gresp.kind]
    IN  { LET d == _duckduckgo_search(q, n, dresp)
          IN  IF body.exc
              THEN [results |-> d.results,
                    events |-> << request, [ev |-> "failed", fn |-> "_google_search"] >>
                               \o d.events]
              ELSE [results |-> body.val \o d.results,
                    events |-> <<request>> \o d.events] : dresp \in DR }

\* DR is what the secondary provider can answer: the call returns one of the
\* outcomes in the set
_google_search(q, n, gresp, DR) ==
    LET body == GoogleBody(gresp)
        request == [ev |-> "http", to |-> "google", q |-> q,
                    num |-> Min(n, GoogleMaxNum), kind |-> gresp.kind]
    IN  IF body.exc
        THEN { LET d == _duckduckgo_search(q, n, dresp)
               IN  [results |-> d.results,
                    events |-> << request, [ev |-> "failed", fn |-> "_google_search"] >>
                               \o d.events] : dresp \in DR }
        ELSE { [results |-> body.val, events |-> <<request>>] }

\* variant: one credential is enough
UsePrimary_Either(key, cx) == Truthy(key) \/ Truthy(cx)

\* line 27
UsePrimary(key, cx) == Truthy(key) /\ Truthy(cx)

(***************************************************************************)
(* generate_response                                                       *)
(***************************************************************************)
\* what self.model.generate_content(prompt) followed by response.text does:
\* it yields a text or raises with a message
ModelOutcomes ==
    { [kind |-> "ok", text |-> <<" ","O","k","\n">>],
      [kind |-> "error", msg |-> <<"q","u","o","t","a">>] }

\* lines 113-117
RECURSIVE Context(_, _)
Context(results, i) ==
    IF i > Len(results) THEN <<>>
    ELSE Decimal(i) \o CONTEXT_TITLE_OPEN \o results[i].title \o CONTEXT_TITLE_CLOSE
         \o CONTEXT_INDENT \o results[i].snippet \o <<"\n">>
         \o CONTEXT_SOURCE \o results[i].link \o <<"\n","\n">>
         \o Context(results, i + 1)

\* lines 119-129
Prompt(q, results) ==
    PROMPT_HEAD \o q \o PROMPT_MID \o (CONTEXT_HEAD \o Context(results, 1))
        \o PROMPT_TAIL

\* variant: the last result is left out of the list
RECURSIVE Bullets_DropLast(_, _)
Bullets_DropLast(results, i) ==
    IF i >= Len(results) THEN <<>>
    ELSE (IF i > 1 THEN <<"\n">> ELSE <<>>)
         \o BULLET \o results[i].title \o COLON \o results[i].snippet
         \o Bullets_DropLast(results, i + 1)

\* line 134: "\n".join(f"• {r['title']}: {r['snippet']}" for r in results)
RECURSIVE Bullets(_, _)
Bullets(results, i) ==
    IF i > Len(results) THEN <<>>
    ELSE (IF i > 1 THEN <<"\n">> ELSE <<>>)
         \o BULLET \o results[i].title \o COLON \o results[i].snippet
         \o Bullets(results, i + 1)

generate_response(q, results, out) ==
    [text |-> IF out.kind = "ok" THEN out.text
              ELSE ERROR_MARKER \o out.msg \o RAW_RESULTS_HEAD \o Bullets(results, 1),
     events |-> << [ev |-> "model", prompt |-> Prompt(q, results), out |-> out] >>]

(***************************************************************************)
(* The state before any query, and a query's own state.                    *)
(***************************************************************************)
\* the two optional credentials as os.getenv gives them: unset, empty, set
Credentials ==
    { <<JNull, JNull>>, <<JStr(<<"k">>), JNull>>, <<JStr(<<>>), JStr(<<"c">>)>>,
      <<JStr(<<"k">>), JStr(<<>>)>>, <<JStr(<<"k">>), JStr(<<"c">>)>> }

InitAgent ==
    /\ \E c \in Credentials :
           /\ search_api_key = c[1]
           /\ search_engine_id = c[2]
    /\ line = <<>>
    /\ calls = 0
    /\ query = <<>>
    /\ num_results = 0
    /\ search_results = <<>>
    /\ ai_response = <<>>
    /\ result = <<>>
    /\ trace = <<>>

NewQuery(q, n) ==
    /\ query' = q
    /\ num_results' = n
    /\ search_results' = <<>>
    /\ ai_response' = <<>>
    /\ result' = <<>>
    /\ trace' = <<>>

\* search_web, lines 25-30, run to its return: called at line 139 (pc = at
\* "search") or directly by a caller (at "searching").  GR and DR are what
\* the two providers can answer.
Deliver(r) ==
    /\ search_results' = r.results
    /\ trace' = trace \o r.events

search_web(at, to, GR, DR) ==
    /\ pc = at
    /\ IF UsePrimary(search_api_key, search_engine_id)
       THEN \E gresp \in GR :
                \E r \in _google_search(query, num_results, gresp, DR) : Deliver(r)
       ELSE \E dresp \in DR :
                Deliver(_duckduckgo_search(query, num_results, dresp))
    /\ pc' = to
    /\ UNCHANGED <<search_api_key, search_engine_id, line, calls, query,
                   num_results, ai_response, result>>

(***************************************************************************)
(* main: the interactive loop, and search_and_answer under it.             *)
(***************************************************************************)
LineChars == {" ", "q", "Q", "a"}

SpecialLines ==
    { <<"q","u","i","t">>, <<"Q","U","I","T">>, <<"e","x","i","t">>,
      <<"\t","E","x","i","T"," ">>, <<"q","u","i","t","s">>,
      <<"e","x"," ","i","t">>, <<" ","a"," ","b","\t">> }

Lines == SeqsUpTo(LineChars, MaxLineLen) \cup SpecialLines

MainGoogle == GoogleResponses

MainDDG == DDGResponses({SnippetLen + 1}, {1}, MainTopics)

Init ==
    /\ InitAgent
    /\ pc = "prompt"

\* lines 169-176: input().strip(), the quit words, the blank line, and the
\* call of search_and_answer(query) up to its line 139
main_input ==
    /\ pc = "prompt"
    /\ \E l \in Lines :
         /\ line' = l
         /\ IF lower(strip(l)) \in QuitWords
            THEN /\ pc' = "done"
                 /\ calls' = 0
                 /\ NewQuery(strip(l), 0)
            ELSE IF strip(l) = <<>>
            THEN /\ pc' = "prompt"
                 /\ calls' = 0
                 /\ NewQuery(strip(l), 0)
            ELSE /\ pc' = "search"
                 /\ calls' = 1
                 /\ NewQuery(strip(l), DefaultNumResults)
    /\ UNCHANGED <<search_api_key, search_engine_id>>

\* line 169 raising (end of input): caught at line 190, outside the loop
main_eof ==
    /\ pc = "prompt"
    /\ pc' = "failed"
    /\ UNCHANGED <<search_api_key, search_engine_id, line, calls, query,
                   num_results, search_results, ai_response, result, trace>>

search_and_answer_search == search_web("search", "generate", MainGoogle, MainDDG)

\* line 144
search_and_answer_generate ==
    /\ pc = "generate"
    /\ \E out \in ModelOutcomes :
         LET g == generate_response(query, search_results, out)
         IN  /\ ai_response' = g.text
             /\ trace' = trace \o g.events
    /\ pc' = "return"
    /\ UNCHANGED <<search_api_key, search_engine_id, line, calls, query,
                   num_results, search_results, result>>

\* lines 146-151 (the timestamp is not modelled)
search_and_answer_return ==
    /\ pc = "return"
    /\ result' = << [query |-> query, search_results |-> search_results,
                     ai_response |-> ai_response] >>
    /\ pc' = "print"
    /\ UNCHANGED <<search_api_key, search_engine_id, line, calls, query,
                   num_results, search_results, ai_response, trace>>

\* an exception leaving search_and_answer: it reaches line 187
search_and_answer_raise ==
    /\ pc = "return"
    /\ pc' = "except"
    /\ UNCHANGED <<search_api_key, search_engine_id, line, calls, query,
                   num_results, search_results, ai_response, result, trace>>

\* what is left of a query when the iteration of the loop ends: the bundle and
\* the locals of search_and_answer are dead, the report stays on the console
EndIteration(report) ==
    /\ search_results' = <<>>
    /\ ai_response' = <<>>
    /\ result' = <<>>
    /\ trace' = report
    /\ pc' = "prompt"
    /\ UNCHANGED <<search_api_key, search_engine_id, line, calls, query,
                   num_results>>

\* lines 177-186 printing the bundle
main_print ==
    /\ pc = "print"
    /\ EndIteration(<< [ev |-> "printed"] >>)

\* variant: the error is not caught inside the loop and reaches line 190
main_print_raise_Uncaught ==
    /\ pc = "print"
    /\ pc' = "failed"
    /\ UNCHANGED <<search_api_key, search_engine_id, line, calls, query,
                   num_results, search_results, ai_response, result, trace>>

\* lines 177-186 raising while they print: it reaches line 187
main_print_raise ==
    /\ pc = "print"
    /\ pc' = "except"
    /\ UNCHANGED <<search_api_key, search_engine_id, line, calls, query,
                   num_results, search_results, ai_response, result, trace>>

\* lines 187-188: report and go on with the loop
main_except ==
    /\ pc = "except"
    /\ EndIteration(<< [ev |-> "reported"] >>)

Next ==
    \/ main_input
    \/ main_eof
    \/ search_and_answer_search
    \/ search_and_answer_generate
    \/ search_and_answer_return
    \/ search_and_answer_raise
    \/ main_print
    \/ main_print_raise
    \/ main_except

Spec == Init /\ [][Next]_vars

(***************************************************************************)
(* A caller of search_web(query, num_results) with any limit >= 1.         *)
(***************************************************************************)
Queries == { <<"a"," ","b">>, <<"q">> }

CallerGoogle == GoogleResponses

CallerDDG == DDGResponses(AbstractLens, TextLens, MaxTopics)

InitSearch ==
    /\ InitAgent
    /\ pc = "idle"

call_search_web ==
    /\ pc = "idle"
    /\ \E q \in Queries, n \in 1..MaxLimit : NewQuery(q, n)
    /\ pc' = "searching"
    /\ UNCHANGED <<search_api_key, search_engine_id, line, calls>>

search_web_run == search_web("searching", "returned", CallerGoogle, CallerDDG)

\* the caller is done with the list it was given
search_web_done ==
    /\ pc = "returned"
    /\ NewQuery(<<>>, 0)
    /\ pc' = "idle"
    /\ UNCHANGED <<search_api_key, search_engine_id, line, calls>>

NextSearch ==
    \/ call_search_web
    \/ search_web_run
    \/ search_web_done

SpecSearch == InitSearch /\ [][NextSearch]_vars

(***************************************************************************)
(* Reading the trace of a query.                                           *)
(***************************************************************************)
IsGoogleRequest(e) == e.ev = "http" /\ e.to = "google"

IsDDGRequest(e) == e.ev = "http" /\ e.to = "duckduckgo"

IsDDGCall(e) == e.ev = "call" /\ e.fn = "_duckduckgo_search"

IsDDGReturn(e) == e.ev = "return" /\ e.fn = "_duckduckgo_search"

IsGoogleFailed(e) == e.ev = "failed" /\ e.fn = "_google_search"

IsDDGFailed(e) == e.ev = "failed" /\ e.fn = "_duckduckgo_search"

IsModelCall(e) == e.ev = "model"

GoogleRequests == { i \in 1..Len(trace) : IsGoogleRequest(trace[i]) }

DDGRequests == { i \in 1..Len(trace) : IsDDGRequest(trace[i]) }

ModelCalls == { i \in 1..Len(trace) : IsModelCall(trace[i]) }

GoogleFailed == \E i \in 1..Len(trace) : IsGoogleFailed(trace[i])

DDGFailed == \E i \in 1..Len(trace) : IsDDGFailed(trace[i])

\* the answer of the secondary provider to the query's request
DDGAnswer == trace[CHOOSE i \in DDGRequests : TRUE].resp

\* a credential is configured when it is a non-empty text
Configured(v) == v.t = "str" /\ v.s # <<>>

\* the first k characters of s, or all of s when it is shorter
FirstChars(s, k) == [i \in 1..(IF Len(s) < k THEN Len(s) ELSE k) |-> s[i]]

Dots == <<".", ".", ".">>

HasText(v, key) ==
    /\ v.t = "dict"
    /\ key \in DOMAIN v.d
    /\ v.d[key].t = "str"
    /\ v.d[key].s # <<>>

\* the related topics of an answer that the limit lets through
TopicsWithin(resp, n) ==
    IF "RelatedTopics" \in DOMAIN resp.data.d /\ resp.data.d["RelatedTopics"].t = "list"
    THEN LET l == resp.data.d["RelatedTopics"].l
         IN  [i \in 1..(IF Len(l) < n - 1 THEN Len(l) ELSE n - 1) |-> l[i]]
    ELSE <<>>

IsTextTopic(v) == HasText(v, "Text")

\* a successful call of the secondary provider has returned
DDGSucceeded == pc = "returned" /\ DDGRequests # {} /\ ~DDGFailed

(***************************************************************************)
(* C1: for every query, limit >= 1, credential configuration and provider  *)
(* outcome, search_web returns a non-empty sequence of results.            *)
(***************************************************************************)
C1_NeverEmpty == pc = "returned" => search_results # <<>>

(***************************************************************************)
(* C2: when the primary provider's call fails, the secondary provider is   *)
(* invoked exactly once with the query and the limit search_web received,  *)
(* and search_web returns exactly what that call returns.                  *)
(***************************************************************************)
C2_FallbackToSecondary ==
    pc = "returned" =>
        /\ \A i \in GoogleRequests : trace[i].kind \in FailureKinds => GoogleFailed
        /\ GoogleFailed =>
               LET c == SelectSeq(trace, IsDDGCall)
                   r == SelectSeq(trace, IsDDGReturn)
               IN  /\ Len(c) = 1
                   /\ c[1].q = query
                   /\ c[1].n = num_results
                   /\ Cardinality(DDGRequests) = 1
                   /\ Len(r) = 1
                   /\ search_results = r[1].val

C2_Witness ==
    /\ pc = "returned"
    /\ GoogleFailed
    /\ \E i \in GoogleRequests : trace[i].kind = "http_error"
    /\ num_results = 2
    /\ Len(search_results) = 2
    /\ ~DDGFailed

(***************************************************************************)
(* C3: a request goes to the primary provider if and only if both the      *)
(* search API key and the search-engine identifier are configured; when    *)
(* either is absent the search goes to the secondary provider only.        *)
(***************************************************************************)
C3_PrimaryIffConfigured ==
    /\ GoogleRequests # {} =>
           Configured(search_api_key) /\ Configured(search_engine_id)
    /\ pc = "returned" =>
           IF Configured(search_api_key) /\ Configured(search_engine_id)
           THEN GoogleRequests # {}
           ELSE GoogleRequests = {} /\ DDGRequests # {}

C3_Witness ==
    /\ pc = "returned"
    /\ Configured(search_api_key)
    /\ search_engine_id = JStr(<<>>)
    /\ GoogleRequests = {}
    /\ DDGRequests # {}

(***************************************************************************)
(* C4: when the secondary provider's call fails at any point, the search   *)
(* returns exactly one result, tagged Fallback and titled                  *)
(* "Search: {query}", and none of the partially built results.             *)
(***************************************************************************)
\* an answer whose abstract gives a first result and one of whose related
\* topics within the limit then makes the building fail
FailsAfterPartial(resp, n) ==
    /\ resp.kind = "ok"
    /\ HasText(resp.data, "Abstract")
    /\ \E i \in 1..Len(TopicsWithin(resp, n)) :
           LET v == TopicsWithin(resp, n)[i]
           IN  v.t = "dict" /\ "Text" \in DOMAIN v.d /\ v.d["Text"].t = "num"
                            /\ v.d["Text"].n # 0

C4_FallbackResult ==
    pc = "returned" /\ DDGRequests # {} =>
        /\ DDGAnswer.kind \in FailureKinds => DDGFailed
        /\ FailsAfterPartial(DDGAnswer, num_results) => DDGFailed
        /\ DDGFailed =>
               /\ Len(search_results) = 1
               /\ search_results[1].source = "Fallback"
               /\ search_results[1].title = <<"S","e","a","r","c","h",":"," ">> \o query

C4_Witness ==
    /\ pc = "returned"
    /\ GoogleFailed
    /\ DDGRequests # {}
    /\ FailsAfterPartial(DDGAnswer, num_results)
    /\ Len(search_results) = 1
    /\ search_results[1].source = "Fallback"

(***************************************************************************)
(* C8: for limit >= 1 a successful secondary call emits at most limit - 1  *)
(* related-topic results, at most limit results in total, the abstract     *)
(* result first when there is an abstract; for limit = 1 the outcome is    *)
(* the abstract result alone when there is an abstract and otherwise the   *)
(* placeholder titled "Search results for: {query}".                       *)
(***************************************************************************)
PlaceholderTitle ==
    <<"S","e","a","r","c","h"," ","r","e","s","u","l","t","s"," ","f","o","r",":"," ">>
        \o query

IsRelatedResult(r) ==
    "source" \in DOMAIN r /\ r.source = "DuckDuckGo" /\ r.title # PlaceholderTitle

IsAbstractResult(r, resp) ==
    /\ "source" \notin DOMAIN r
    /\ r.title = (IF "Heading" \in DOMAIN resp.data.d
                  THEN resp.data.d["Heading"].s ELSE query)

C8_LimitMinusOne ==
    DDGSucceeded =>
        LET related == { i \in 1..Len(search_results) :
                            IsRelatedResult(search_results[i]) }
        IN  /\ Cardinality(related) <= num_results - 1
            /\ Len(search_results) <= num_results
            /\ Len(search_results) >= 1
            /\ HasText(DDGAnswer.data, "Abstract") =>
                   IsAbstractResult(search_results[1], DDGAnswer)
            /\ num_results = 1 =>
                   /\ related = {}
                   /\ Len(search_results) = 1
                   /\ IF HasText(DDGAnswer.data, "Abstract")
                      THEN IsAbstractResult(search_results[1], DDGAnswer)
                      ELSE /\ search_results[1].title = PlaceholderTitle
                           /\ search_results[1].source = "DuckDuckGo"

C8_Witness ==
    /\ DDGSucceeded
    /\ num_results = 1
    /\ HasText(DDGAnswer.data, "Abstract")
    /\ "RelatedTopics" \in DOMAIN DDGAnswer.data.d
    /\ DDGAnswer.data.d["RelatedTopics"].t = "list"
    /\ \E i \in 1..Len(DDGAnswer.data.d["RelatedTopics"].l) :
           IsTextTopic(DDGAnswer.data.d["RelatedTopics"].l[i])
    /\ Len(search_results) = 1

(***************************************************************************)
(* C9: the snippet of a secondary result is the first min(len(s), 200)     *)
(* characters of its source text s followed by "...", also when            *)
(* len(s) < 200; the title of a related-topic result is the first          *)
(* min(len(s), 50) characters of s followed by "...".                      *)
(***************************************************************************)
C9_Truncation ==
    DDGSucceeded =>
        LET hasAbs == HasText(DDGAnswer.data, "Abstract")
            first == IF hasAbs THEN 1 ELSE 0
            topics == SelectSeq(TopicsWithin(DDGAnswer, num_results), IsTextTopic)
        IN  /\ hasAbs =>
                   search_results[1].snippet =
                       FirstChars(DDGAnswer.data.d["Abstract"].s, 200) \o Dots
            /\ hasAbs \/ topics # <<>> => Len(search_results) = first + Len(topics)
            /\ \A j \in 1..Len(topics) :
                   LET s == topics[j].d["Text"].s
                       r == search_results[first + j]
                   IN  /\ r.snippet = FirstChars(s, 200) \o Dots
                       /\ r.title = FirstChars(s, 50) \o Dots

C9_Witness ==
    /\ DDGSucceeded
    /\ HasText(DDGAnswer.data, "Abstract")
    /\ Len(DDGAnswer.data.d["Abstract"].s) = 1
    /\ Len(search_results) = 2
    /\ Len(search_results[1].snippet) = 4
    /\ Len(search_results[2].title) = 53
    /\ Len(search_results[2].snippet) = 54

(***************************************************************************)
(* C5: generate_response returns the model's text verbatim when the        *)
(* completion call succeeds, and when it fails returns a non-empty text:   *)
(* an error marker followed by one "title: snippet" bullet per result, in  *)
(* the order of the results, so that every title appears in it.            *)
(***************************************************************************)
Generated == pc \in {"return", "print", "except"}

ModelOutcome == trace[CHOOSE i \in ModelCalls : TRUE].out

BulletOf(r) == <<"U+2022", " ">> \o r.title \o <<":", " ">> \o r.snippet

\* the lengths of the first k bullets, each but the first after a line break
RECURSIVE BulletsLen(_)
BulletsLen(k) ==
    IF k = 0 THEN 0
    ELSE BulletsLen(k - 1) + (IF k > 1 THEN 1 ELSE 0) + Len(BulletOf(search_results[k]))

Occurs(part, whole) ==
    \E i \in 1..(Len(whole) - Len(part) + 1) :
        SubSeq(whole, i, i + Len(part) - 1) = part

C5_GenerateTotal ==
    Generated =>
        /\ Cardinality(ModelCalls) = 1
        /\ ModelOutcome.kind = "ok" => ai_response = ModelOutcome.text
        /\ ModelOutcome.kind = "error" =>
               LET marker == ERROR_MARKER \o ModelOutcome.msg
                   base == Len(marker) + Len(RAW_RESULTS_HEAD)
               IN  /\ ai_response # <<>>
                   /\ SubSeq(ai_response, 1, Len(marker)) = marker
                   /\ SubSeq(ai_response, Len(marker) + 1, base) = RAW_RESULTS_HEAD
                   /\ Len(ai_response) = base + BulletsLen(Len(search_results))
                   /\ \A k \in 1..Len(search_results) :
                          /\ SubSeq(ai_response,
                                    base + BulletsLen(k) - Len(BulletOf(search_results[k])) + 1,
                                    base + BulletsLen(k)) = BulletOf(search_results[k])
                          /\ k > 1 =>
                                 ai_response[base + BulletsLen(k)
                                             - Len(BulletOf(search_results[k]))] = "\n"
                          /\ Occurs(search_results[k].title, ai_response)

C5_Witness ==
    /\ pc = "return"
    /\ ModelCalls # {}
    /\ ModelOutcome.kind = "error"
    /\ Len(search_results) = 2
    /\ "source" \notin DOMAIN search_results[1]
    /\ search_results[2].source = "DuckDuckGo"
    /\ Occurs(search_results[2].title, ai_response)

(***************************************************************************)
(* C6: an error raised while one query is processed never ends the         *)
(* session: it is caught at the loop level and reported, and the loop      *)
(* prompts for the next input.                                             *)
(***************************************************************************)
Processing == pc \in {"search", "generate", "return", "print", "except"}

C6_ErrorKeepsSession ==
    [][ /\ Processing => pc' \notin {"done", "failed"}
        /\ pc = "except" => pc' = "prompt" /\ trace' = << [ev |-> "reported"] >>
        /\ pc' = "except" => pc \in {"return", "print"} ]_vars

C6_Witness ==
    /\ pc = "prompt"
    /\ calls = 1
    /\ trace = << [ev |-> "reported"] >>

(***************************************************************************)
(* C7: a line that after trimming is quit, exit or q in any letter case    *)
(* ends the loop without a call of search_and_answer; a line blank after   *)
(* trimming calls nothing and prompts again; any other line calls          *)
(* search_and_answer exactly once with the trimmed line, and the next line *)
(* is read only when that query has been processed to completion.          *)
(***************************************************************************)
Blank(c) == c \in {" ", "\t"}

\* t is l without its leading and trailing blanks
IsTrimOf(t, l) ==
    \E i \in 1..(Len(l) + 1), j \in 0..Len(l) :
        /\ t = SubSeq(l, i, j)
        /\ \A k \in 1..(i - 1) : Blank(l[k])
        /\ \A k \in (j + 1)..Len(l) : Blank(l[k])
        /\ i <= j => ~Blank(l[i]) /\ ~Blank(l[j])

Trimmed(l) ==
    CHOOSE t \in { SubSeq(l, i, j) : i \in 1..(Len(l) + 1), j \in 0..Len(l) } :
        IsTrimOf(t, l)

UpperOf(c) ==
    CASE c = "q" -> "Q" [] c = "u" -> "U" [] c = "i" -> "I" [] c = "t" -> "T"
      [] c = "e" -> "E" [] c = "x" -> "X"

IsQuitWord(t) ==
    \E w \in { <<"q","u","i","t">>, <<"e","x","i","t">>, <<"q">> } :
        /\ Len(t) = Len(w)
        /\ \A k \in 1..Len(w) : t[k] \in {w[k], UpperOf(w[k])}

C7_LoopDispatch ==
    [][ /\ (pc = "prompt" /\ pc' # "failed") =>
               IF IsQuitWord(Trimmed(line'))
               THEN pc' = "done" /\ calls' = 0
               ELSE IF Trimmed(line') = <<>>
               THEN pc' = "prompt" /\ calls' = 0
               ELSE /\ pc' = "search"
                    /\ calls' = 1
                    /\ query' = Trimmed(line')
        /\ pc # "prompt" => line' = line /\ calls' = calls /\ query' = query
        /\ pc \in {"done", "failed"} => pc' = pc ]_vars

C7_Witness ==
    /\ pc = "done"
    /\ line = <<"\t","E","x","i","T"," ">>
    /\ calls = 0

(***************************************************************************)
(* C10: a call of search_and_answer makes at most one request to the       *)
(* primary provider, then at most one to the secondary provider (after a   *)
(* primary request only if that one failed), and then exactly one call of  *)
(* the generative model, issued only after the search has returned.        *)
(***************************************************************************)
C10_CallSequence ==
    /\ Cardinality(GoogleRequests) <= 1
    /\ Cardinality(DDGRequests) <= 1
    /\ Cardinality(ModelCalls) <= 1
    /\ \A g \in GoogleRequests, d \in DDGRequests :
           /\ g < d
           /\ \E f \in (g + 1)..(d - 1) : IsGoogleFailed(trace[f])
    /\ \A m \in ModelCalls : \A h \in GoogleRequests \cup DDGRequests : h < m
    /\ pc \in {"search", "generate"} => ModelCalls = {}
    /\ pc = "generate" => GoogleRequests \cup DDGRequests # {}
    /\ Generated =>
           /\ Cardinality(ModelCalls) = 1
           /\ GoogleRequests \cup DDGRequests # {}

C10_Witness ==
    /\ pc = "print"
    /\ Cardinality(GoogleRequests) = 1
    /\ Cardinality(DDGRequests) = 1
    /\ Cardinality(ModelCalls) = 1
    /\ result # <<>>

====
